---- MODULE Spec2Model ----
(***************************************************************************)
(* HistoricalOddsConnector (hist_odds_conn.py): the sliding-window rate    *)
(* limiter, the snapshot fetchers, the per-game processor and the batched  *)
(* season orchestrator, as an asyncio program.  One action is one run of a *)
(* coroutine between two suspension points (asyncio.sleep, the network     *)
(* call, asyncio.gather): code between two awaits that do not suspend runs *)
(* atomically on the event loop.                                           *)
(***************************************************************************)
EXTENDS Integers, Sequences, FiniteSets, TLC

\* ------------------------------------------------------------------ bounds
MaxGames == 4        \* longest list of well-formed games without overtime
MaxMixed == 3        \* longest list with an overtime or malformed game in it
MaxBatch == 2        \* largest batch_size argument
MaxFaults == 1       \* responses per run that are late or not a plain payload
SlowResponse == 30   \* seconds a late response takes
MaxStart == 1        \* latest wall-clock minute of a start string given to the generator
MaxDuration == 7     \* longest game_duration given to the generator, besides the default
MaxInterval == 4     \* longest interval given to the generator, besides the default

\* ------------------------------------------------------- program constants
RateCapacity == 30           \* len(self.request_timestamps) == 30
WindowSeconds == 60          \* elapsed < 60, sleep(60 - elapsed)
DequeMaxLen == 300           \* deque(maxlen=300)
DefaultDuration == 180       \* game_duration = 180
FootballDuration == 240      \* game_duration = 240
OvertimeExtra == 30          \* game_duration += 30
DefaultInterval == 30        \* interval: int = 30

Missing == -1                \* a key that the game dict does not have

sport_keys ==
  [nfl |-> "americanfootball_nfl", cfb |-> "americanfootball_ncaaf",
   nba |-> "basketball_nba", nhl |-> "icehockey_nhl"]

\* the codes of the table that differ in how the code treats them, and one
\* code outside the table
Sports == {"nfl", "cfb", "nba", "mlb"}

PlainGame == [commence_time |-> 0, scores |-> {}]
OvertimeGame == [commence_time |-> 0, scores |-> {"overtime"}]
MalformedGame == [commence_time |-> Missing, scores |-> {}]
GameKinds == {PlainGame, OvertimeGame, MalformedGame}

\* what the provider answers: a payload ("late": after SlowResponse seconds), an
\* empty body, a body with an error_code field, or a transport exception;
\* "absent" is a payload for the date without an entry of the game
Outcomes == {"ok", "late", "empty", "error_code", "raise", "absent"}

Calls == {"fetch_season_odds", "fetch_game_odds_history"}

\* An ISO 8601 string is its wall-clock reading, in minutes, and its UTC
\* designator.  The strings of the games above are "Z" strings, written as
\* their wall-clock minutes.
Suffixes == {"Z", "+00:00", "+01:00", "-05:00"}
IsoString(wall, suffix) == [wall |-> wall, suffix |-> suffix]

VARIABLES call,                       \* the public method the caller awaits
          sport, games, batch_size,   \* its arguments (one game for the history call)
          clock,                      \* datetime.now(), in seconds
          request_timestamps,         \* self.request_timestamps
          released,                   \* clock value at each return of _rate_limit
          task,                       \* one process_game_odds coroutine per game
          overtook,                   \* a coroutine ended before one of an earlier game
          orch, i, all_odds_data,     \* fetch_season_odds: position, loop index, result
          batch_errors,               \* "Error processing batch" lines printed
          faults,                     \* late or failed responses so far
          gen                         \* a direct call of generate_game_timestamps

vars == <<call, sport, games, batch_size, clock, request_timestamps, released, task,
          overtook, orch, i, all_odds_data, batch_errors, faults, gen>>

Min(a, b) == IF a < b THEN a ELSE b
Max(a, b) == IF a > b THEN a ELSE b

\* ------------------------------------------------------------ pure helpers
DequeAppend(q, x) ==
  IF Len(q) = DequeMaxLen THEN Append(Tail(q), x) ELSE Append(q, x)

RECURSIVE TimestampLoop(_, _, _, _)
TimestampLoop(current, end_time, interval, timestamps) ==
  IF current <= end_time
    THEN TimestampLoop(current + interval, end_time, interval,
                       Append(timestamps, current))
    ELSE timestamps

\* lines 60-67 on the wall-clock minutes of the start
generate_game_timestamps(game_start, game_duration, interval) ==
  TimestampLoop(game_start, game_start + game_duration, interval, <<>>)

\* line 59: game_start.replace("Z", "+00:00")
ReplaceZ(s) == IF s.suffix = "Z" THEN [s EXCEPT !.suffix = "+00:00"] ELSE s

\* minutes east of UTC that a designator stands for
OffsetMinutes(suffix) ==
  CASE suffix = "+00:00" -> 0
    [] suffix = "+01:00" -> 60
    [] suffix = "-05:00" -> 0 - 300

\* line 59: datetime.fromisoformat, an aware datetime
fromisoformat(s) == [wall |-> s.wall, utcoffset |-> OffsetMinutes(s.suffix)]

\* line 64: strftime("%Y-%m-%dT%H:%M:%SZ") prints the wall-clock fields of the
\* datetime and the letter Z
strftime(dt) == IsoString(dt.wall, "Z")

\* lines 58-67, from the start string to the strings returned
GeneratedStrings(game_start, game_duration, interval) ==
  LET start_time == fromisoformat(ReplaceZ(game_start))
      walls == generate_game_timestamps(start_time.wall, game_duration, interval)
  IN [k \in 1..Len(walls) |->
        strftime([wall |-> walls[k], utcoffset |-> start_time.utcoffset])]

\* lines 113-119
GameDuration(sp, game) ==
  IF sp \in {"nfl", "ncaa"} THEN FootballDuration
  ELSE IF "overtime" \in game.scores THEN DefaultDuration + OvertimeExtra
  ELSE DefaultDuration

\* line 73
HistoryDuration(sp) ==
  IF sp \notin {"nfl", "ncaa"} THEN DefaultDuration ELSE FootballDuration

\* ------------------------------------------------------------ rate limiter
MustWait(rts, now) ==
  /\ Len(rts) = RateCapacity
  /\ now - rts[1] < WindowSeconds

WaitSeconds(rts, now) == WindowSeconds - (now - rts[1])

\* _rate_limit returning without recording the request
RecordRequestSkipped(rts, now) == rts

\* line 28: the append that ends _rate_limit
RecordRequest(rts, now) == DequeAppend(rts, now)

\* --------------------------------------------------- process_game_odds loop
\* path: "event" is process_game_odds with fetch_odds_snapshot, "date" is
\* fetch_game_odds_history with fetch_odds_by_date
NewTask ==
  [pc |-> "none", path |-> "event", ts |-> <<>>, idx |-> 0, now |-> 0, wake |-> 0,
   hist |-> <<>>, errors |-> 0, got |-> <<>>, acquired |-> 0, sent |-> 0,
   batch |-> 0]

\* A coroutine runs until it suspends.  RunLoop starts the for-loop iteration
\* tk.idx of process_game_odds (fetch_game_odds_history) with limiter history
\* rts; AfterLimit continues fetch_odds_snapshot (fetch_odds_by_date) after
\* _rate_limit has returned.  The result is the coroutine at its next
\* suspension point and the limiter history it leaves.
RECURSIVE RunLoop(_, _, _, _, _)
RECURSIVE AfterLimit(_, _, _, _, _)

\* the request of the next timestamp sent along with the current one
AfterLimitPipelined(tk, rts, rel, clk, sp) ==
  IF sp \notin DOMAIN sport_keys
    THEN [tk |-> [tk EXCEPT !.pc = "raised", !.acquired = @ + 1,
                            !.got = Append(@, "KeyError")],
          rts |-> rts, rel |-> rel]
    ELSE [tk |-> [tk EXCEPT !.pc = "network", !.acquired = @ + 2, !.sent = @ + 2],
          rts |-> RecordRequest(rts, clk), rel |-> Append(rel, clk)]

RunLoop(tk, rts, rel, clk, sp) ==
  IF tk.idx > Len(tk.ts)
    THEN [tk |-> [tk EXCEPT !.pc = "returned"], rts |-> rts, rel |-> rel]
  ELSE IF MustWait(rts, clk)
    THEN [tk |-> [tk EXCEPT !.pc = "sleeping", !.now = clk,
                            !.wake = clk + WaitSeconds(rts, clk)],
          rts |-> rts, rel |-> rel]
  ELSE AfterLimit([tk EXCEPT !.now = clk], RecordRequest(rts, clk),
                  Append(rel, clk), clk, sp)

AfterLimit(tk, rts, rel, clk, sp) ==
  IF sp \notin DOMAIN sport_keys
    THEN \* self.sport_keys[sport] raises KeyError
         IF tk.path = "event"
           THEN \* caught at line 137
                RunLoop([tk EXCEPT !.acquired = @ + 1, !.errors = @ + 1,
                                   !.got = Append(@, "KeyError"), !.idx = @ + 1],
                        rts, rel, clk, sp)
           ELSE \* nothing catches it in fetch_game_odds_history
                [tk |-> [tk EXCEPT !.pc = "raised", !.acquired = @ + 1,
                                   !.got = Append(@, "KeyError")],
                 rts |-> rts, rel |-> rel]
    ELSE [tk |-> [tk EXCEPT !.pc = "network", !.acquired = @ + 1, !.sent = @ + 1],
          rts |-> rts, rel |-> rel]

\* --------------------------------------------------------------------- Init
NoGen == [pc |-> "none", game_start |-> IsoString(0, "Z"), game_duration |-> 0,
          interval |-> 1, timestamps |-> <<>>]

PlainLists == {[g \in 1..n |-> PlainGame] : n \in 1..MaxGames}
MixedLists ==
  {[g \in 1..n |-> IF g = p THEN k ELSE PlainGame] :
     n \in 1..MaxMixed, p \in 1..MaxMixed, k \in {OvertimeGame, MalformedGame}}
GameLists == PlainLists \cup {gs \in MixedLists : \E g \in 1..Len(gs) : gs[g] # PlainGame}

Init ==
  /\ call \in Calls
  /\ sport \in Sports
  /\ IF call = "fetch_season_odds"
       THEN /\ games \in GameLists
            /\ batch_size \in 1..MaxBatch
            /\ task = [g \in 1..Len(games) |-> NewTask]
            /\ orch = "loop"
       ELSE /\ games \in {<<k>> : k \in GameKinds}
            /\ batch_size = 1
            /\ task = [g \in {1} |-> [NewTask EXCEPT !.pc = "created", !.path = "date"]]
            /\ orch = "history"
  /\ clock = 0
  /\ request_timestamps = <<>>
  /\ released = <<>>
  /\ overtook = FALSE
  /\ i = 0
  /\ all_odds_data = <<>>
  /\ batch_errors = 0
  /\ faults = 0
  /\ gen = NoGen

\* ------------------------------------------------------------------ actions
\* a slice that starts one game early
BatchOfOverlapping(start) ==
  {g \in 1..Len(games) : start <= g /\ g <= start + batch_size}

\* line 152: games[i : i + batch_size]
BatchOf(start) == {g \in 1..Len(games) : start < g /\ g <= start + batch_size}

\* lines 151-156: next iteration of the batch loop, up to the await on gather
StartBatch ==
  /\ orch = "loop"
  /\ i < Len(games)
  /\ task' = [g \in 1..Len(games) |->
                IF g \in BatchOf(i)
                  THEN [NewTask EXCEPT !.pc = "created", !.batch = i]
                  ELSE task[g]]
  /\ orch' = "gather"
  /\ UNCHANGED <<gen, call, sport, games, batch_size, clock, request_timestamps, released,
                 overtook, i, all_odds_data, batch_errors, faults>>

\* line 162
Return ==
  /\ orch = "loop"
  /\ i >= Len(games)
  /\ orch' = "returned"
  /\ UNCHANGED <<gen, call, sport, games, batch_size, clock, request_timestamps, released,
                 overtook, task, i, all_odds_data, batch_errors, faults>>

Ended(tk) == tk.pc \in {"returned", "raised"}

\* game g ends while an earlier game of its batch is still being processed
Overtakes(g) ==
  \E h \in 1..Len(games) :
    h < g /\ task[h].batch = task[g].batch /\ task[h].pc \in {"sleeping", "network"}

\* the event loop runs the tasks that gather created in creation order
StartedBefore(g) == \A h \in 1..Len(games) : h < g => task[h].pc # "created"

\* a timer or a response is handled once the callbacks that are ready have
\* run: the first step of every created task, and fetch_season_odds up to gather
NothingReady ==
  /\ orch # "loop"
  /\ \A h \in 1..Len(games) : task[h].pc # "created"

\* lines 111-126 (73-78): first run of the coroutine for game g
TaskStart(g) ==
  /\ task[g].pc = "created"
  /\ orch # "loop"
  /\ StartedBefore(g)
  /\ IF games[g].commence_time = Missing
       THEN \* game["commence_time"] raises KeyError outside any try
            /\ task' = [task EXCEPT ![g].pc = "raised"]
            /\ overtook' = (overtook \/ Overtakes(g))
            /\ UNCHANGED <<request_timestamps, released>>
       ELSE LET ts == generate_game_timestamps(
                        games[g].commence_time,
                        IF task[g].path = "event" THEN GameDuration(sport, games[g])
                                                  ELSE HistoryDuration(sport),
                        DefaultInterval)
                r == RunLoop([task[g] EXCEPT !.ts = ts, !.idx = 1],
                             request_timestamps, released, clock, sport)
            IN /\ task' = [task EXCEPT ![g] = r.tk]
               /\ overtook' = (overtook \/ (Ended(r.tk) /\ Overtakes(g)))
               /\ request_timestamps' = r.rts
               /\ released' = r.rel
  /\ UNCHANGED <<gen, call, sport, games, batch_size, clock, orch, i, all_odds_data,
                 batch_errors, faults>>

\* asyncio wakes the sleeper with the earliest deadline first
EarliestSleeper(g) ==
  \A h \in 1..Len(games) : task[h].pc = "sleeping" => task[h].wake >= task[g].wake

\* asyncio.sleep never ends
WakeNever(g) ==
  /\ task[g].pc = "sleeping"
  /\ FALSE
  /\ UNCHANGED vars

\* lines 27-28 and on: asyncio.sleep returns, _rate_limit appends and returns
Wake(g) ==
  /\ task[g].pc = "sleeping"
  /\ NothingReady
  /\ EarliestSleeper(g)
  /\ clock' = Max(clock, task[g].wake)
  /\ LET r == AfterLimit(task[g],
                         RecordRequest(request_timestamps, task[g].now),
                         Append(released, clock'), clock', sport)
     IN /\ task' = [task EXCEPT ![g] = r.tk]
        /\ overtook' = (overtook \/ (Ended(r.tk) /\ Overtakes(g)))
        /\ request_timestamps' = r.rts
        /\ released' = r.rel
  /\ UNCHANGED <<gen, call, sport, games, batch_size, orch, i, all_odds_data,
                 batch_errors, faults>>

\* lines 130-136
SnapshotRecord(g, timestamp, payload) ==
  [game_id |-> g, timestamp |-> timestamp, odds_snapshot |-> payload]

\* line 86
HistoryRecord(timestamp, payload) == [timestamp |-> timestamp, odds_data |-> payload]

\* what a response carries, whenever it arrives
Answer(outcome) == IF outcome = "late" THEN "ok" ELSE outcome

\* a transport exception that ends the loop over the timestamps
HandleSnapshotAbort(tk, g, outcome) ==
  IF outcome = "raise"
    THEN [tk EXCEPT !.got = Append(@, "raise"), !.errors = @ + 1,
                    !.idx = Len(tk.ts) + 1]
    ELSE [tk EXCEPT !.got = Append(@, Answer(outcome)),
                    !.hist = IF outcome = "empty" THEN @
                             ELSE Append(@, SnapshotRecord(g, tk.ts[tk.idx],
                                    IF outcome = "error_code" THEN "error_code"
                                                              ELSE "odds")),
                    !.idx = @ + 1]

\* lines 129-140: process_game_odds handles what fetch_odds_snapshot gave
HandleSnapshot(tk, g, outcome) ==
  LET timestamp == tk.ts[tk.idx]
      seen == [tk EXCEPT !.got = Append(@, Answer(outcome))] IN
  CASE outcome \in {"ok", "late"} ->
         [seen EXCEPT !.hist = Append(@, SnapshotRecord(g, timestamp, "odds")),
                      !.idx = @ + 1]
    [] outcome = "error_code" ->
         [seen EXCEPT !.hist = Append(@, SnapshotRecord(g, timestamp, "error_code")),
                      !.idx = @ + 1]
    [] outcome = "empty" -> [seen EXCEPT !.idx = @ + 1]
    [] outcome = "raise" -> [seen EXCEPT !.errors = @ + 1, !.idx = @ + 1]

\* lines 48-52, 79-87: fetch_odds_by_date checks error_code, then
\* fetch_game_odds_history keeps the entry of its game, if there is one
HandleByDate(tk, outcome) ==
  LET timestamp == tk.ts[tk.idx]
      seen == [tk EXCEPT !.got = Append(@, Answer(outcome))] IN
  CASE outcome \in {"ok", "late"} ->
         [seen EXCEPT !.hist = Append(@, HistoryRecord(timestamp, "odds")),
                      !.idx = @ + 1]
    [] outcome \in {"empty", "absent"} -> [seen EXCEPT !.idx = @ + 1]
    [] outcome \in {"error_code", "raise"} -> [seen EXCEPT !.pc = "raised"]

\* lines 104-105 (48-49): the response of the pending request arrives
Respond(g, outcome) ==
  /\ task[g].pc = "network"
  /\ NothingReady
  /\ outcome = "absent" => task[g].path = "date"
  /\ outcome # "ok" => faults < MaxFaults
  /\ faults' = IF outcome = "ok" THEN faults ELSE faults + 1
  /\ clock' = IF outcome = "late" THEN clock + SlowResponse ELSE clock
  /\ LET handled == IF task[g].path = "event"
                      THEN HandleSnapshot(task[g], g, outcome)
                      ELSE HandleByDate(task[g], outcome)
         r == IF handled.pc = "raised"
                THEN [tk |-> handled, rts |-> request_timestamps, rel |-> released]
                ELSE RunLoop(handled, request_timestamps, released, clock', sport)
     IN /\ task' = [task EXCEPT ![g] = r.tk]
        /\ overtook' = (overtook \/ (Ended(r.tk) /\ Overtakes(g)))
        /\ request_timestamps' = r.rts
        /\ released' = r.rel
  /\ UNCHANGED <<gen, call, sport, games, batch_size, orch, i, all_odds_data, batch_errors>>

AllStarted(B) == \A g \in B : task[g].pc # "created"

\* the histories of a batch taken last game first
RECURSIVE ReversedHistories(_, _)
ReversedHistories(g, last) ==
  IF g > last THEN <<>> ELSE ReversedHistories(g + 1, last) \o task[g].hist

ExtendAllReversed(acc, g, last) == acc \o ReversedHistories(g, last)

\* lines 157-158
RECURSIVE ExtendAll(_, _, _)
ExtendAll(acc, g, last) ==
  IF g > last THEN acc ELSE ExtendAll(acc \o task[g].hist, g + 1, last)

\* lines 156-158: every task of the batch returned
GatherReturn ==
  /\ orch = "gather"
  /\ \A g \in BatchOf(i) : task[g].pc = "returned"
  /\ all_odds_data' = ExtendAll(all_odds_data, i + 1, Min(i + batch_size, Len(games)))
  /\ i' = i + batch_size
  /\ orch' = "loop"
  /\ UNCHANGED <<gen, call, sport, games, batch_size, clock, request_timestamps, released,
                 overtook, task, batch_errors, faults>>

\* the histories of the games of a batch that have returned
RECURSIVE ExtendReturned(_, _, _)
ExtendReturned(acc, g, last) ==
  IF g > last THEN acc
  ELSE ExtendReturned(IF task[g].pc = "returned" THEN acc \o task[g].hist ELSE acc,
                      g + 1, last)

\* the exception of a task keeps what the other tasks of the batch returned
GatherRaiseKeepsSiblings ==
  /\ orch = "gather"
  /\ AllStarted(BatchOf(i))
  /\ \E g \in BatchOf(i) : task[g].pc = "raised"
  /\ all_odds_data' = ExtendReturned(all_odds_data, i + 1,
                                     Min(i + batch_size, Len(games)))
  /\ batch_errors' = batch_errors + 1
  /\ i' = i + batch_size
  /\ orch' = "loop"
  /\ UNCHANGED <<gen, call, sport, games, batch_size, clock, request_timestamps,
                 released, overtook, task, faults>>

\* the exception of a task ends the batch loop
GatherRaiseBreaks ==
  /\ orch = "gather"
  /\ AllStarted(BatchOf(i))
  /\ \E g \in BatchOf(i) : task[g].pc = "raised"
  /\ batch_errors' = batch_errors + 1
  /\ i' = Len(games)
  /\ orch' = "loop"
  /\ UNCHANGED <<gen, call, sport, games, batch_size, clock, request_timestamps, released,
                 overtook, task, all_odds_data, faults>>

\* the exception of a task leaves fetch_season_odds
GatherRaisePropagates ==
  /\ orch = "gather"
  /\ AllStarted(BatchOf(i))
  /\ \E g \in BatchOf(i) : task[g].pc = "raised"
  /\ orch' = "raised"
  /\ UNCHANGED <<gen, call, sport, games, batch_size, clock, request_timestamps, released,
                 overtook, task, i, all_odds_data, batch_errors, faults>>

\* lines 156, 159-160: gather re-raises the first exception of a task
GatherRaise ==
  /\ orch = "gather"
  /\ AllStarted(BatchOf(i))
  /\ \E g \in BatchOf(i) : task[g].pc = "raised"
  /\ batch_errors' = batch_errors + 1
  /\ i' = i + batch_size
  /\ orch' = "loop"
  /\ UNCHANGED <<gen, call, sport, games, batch_size, clock, request_timestamps, released,
                 overtook, task, all_odds_data, faults>>

Next ==
  \/ StartBatch
  \/ Return
  \/ \E g \in 1..Len(games) : TaskStart(g)
  \/ \E g \in 1..Len(games) : Wake(g)
  \/ \E g \in 1..Len(games), outcome \in Outcomes : Respond(g, outcome)
  \/ GatherReturn
  \/ GatherRaise

Spec == Init /\ [][Next]_vars

\* ------------------------------------- generate_game_timestamps on its own
GenStarts == {IsoString(w, x) : w \in 0..MaxStart, x \in Suffixes}
\* <<game_duration, interval>>: the small ones, and the defaults of line 55
GenArguments ==
  ((0..MaxDuration) \X (1..MaxInterval))
    \cup ((0..MaxDuration) \X {DefaultInterval})
    \cup {<<DefaultDuration, DefaultInterval>>}

GenInit ==
  /\ gen \in {[pc |-> "called", game_start |-> s, game_duration |-> a[1],
               interval |-> a[2], timestamps |-> <<>>] :
                s \in GenStarts, a \in GenArguments}
  /\ call = "generate_game_timestamps"
  /\ sport = "nba"
  /\ games = <<>>
  /\ batch_size = 1
  /\ task = <<>>
  /\ orch = "none"
  /\ clock = 0
  /\ request_timestamps = <<>>
  /\ released = <<>>
  /\ overtook = FALSE
  /\ i = 0
  /\ all_odds_data = <<>>
  /\ batch_errors = 0
  /\ faults = 0

\* lines 54-67: the call runs to its return
GenReturn ==
  /\ gen.pc = "called"
  /\ gen' = [gen EXCEPT !.pc = "returned",
                        !.timestamps = GeneratedStrings(gen.game_start,
                                                        gen.game_duration,
                                                        gen.interval)]
  /\ UNCHANGED <<call, sport, games, batch_size, clock, request_timestamps, released,
                 task, overtook, orch, i, all_odds_data, batch_errors, faults>>

GenNext == GenReturn

GenSpec == GenInit /\ [][GenNext]_vars

\* the event loop runs every ready coroutine, every sleep ends and every
\* request is answered or fails
FairSpec == Spec /\ WF_vars(Next)

TypeOK ==
  /\ sport \in Sports
  /\ orch \in {"loop", "gather", "returned", "history"}
  /\ \A g \in 1..Len(games) :
       task[g].pc \in {"none", "created", "sleeping", "network", "returned", "raised"}

\* ------------------------------------------------------------------ claims
Tasks == 1..Len(games)
SeasonCall == call = "fetch_season_odds"
KnownSport == sport \in DOMAIN sport_keys

\* the requests let through in the 60 seconds that end at instant t
InWindow(t) ==
  {k \in 1..Len(released) : t - WindowSeconds < released[k] /\ released[k] <= t}

\* C1: no 60-second window of the clock contains more than 30 requests that
\* _rate_limit let through.
C1_QuotaPerWindow ==
  \A k \in 1..Len(released) : Cardinality(InWindow(released[k])) <= RateCapacity

\* between the capacity check of line 24 and the append of line 28
InLimiter(g) == task[g].pc = "sleeping"

\* C2: at no time are two callers of _rate_limit both between their capacity
\* check and their append.
C2_LimiterMutex ==
  \A g, h \in Tasks : InLimiter(g) /\ InLimiter(h) => g = h

RECURSIVE SumAcquired(_)
SumAcquired(g) == IF g = 0 THEN 0 ELSE task[g].acquired + SumAcquired(g - 1)

\* C3: every network request of fetch_odds_snapshot and fetch_odds_by_date
\* follows a completed _rate_limit call of that same fetch, and every
\* _rate_limit call appends exactly one entry to the one shared history.
C3_LimiterBeforeRequest ==
  /\ \A g \in Tasks :
       /\ task[g].sent <= task[g].acquired
       /\ task[g].pc = "network" =>
            task[g].acquired = task[g].idx /\ task[g].sent = task[g].idx
  /\ Len(request_timestamps) = Min(DequeMaxLen, SumAcquired(Len(games)))

C3_Witness ==
  /\ SeasonCall
  /\ \E g \in Tasks : task[g].pc = "network" /\ task[g].batch > 0 /\ task[g].idx > 1

Failed(answer) == answer \in {"raise", "KeyError"}

\* the positions of the timestamps whose fetch did not raise, in order
Kept(tk) ==
  SelectSeq([k \in 1..Len(tk.got) |-> k], LAMBDA k : ~Failed(tk.got[k]))

\* C4: when the fetch raises for some timestamps and gives a non-empty payload
\* for the others, process_game_odds still fetches every timestamp and returns
\* exactly one record per non-failed timestamp, in ascending timestamp order,
\* so N - 1 records after one failure.
C4_TimestampFailureIsolated ==
  \A g \in Tasks :
    LET tk == task[g] IN
    (/\ tk.path = "event"
     /\ tk.pc = "returned"
     /\ \A k \in 1..Len(tk.got) : tk.got[k] # "empty")
    => /\ Len(tk.got) = Len(tk.ts)
       /\ Len(tk.hist) = Len(Kept(tk))
       /\ \A j \in 1..Len(tk.hist) :
            /\ tk.hist[j].game_id = g
            /\ tk.hist[j].timestamp = tk.ts[Kept(tk)[j]]
       /\ \A j, k \in 1..Len(tk.hist) :
            j < k => tk.hist[j].timestamp < tk.hist[k].timestamp

C4_Witness ==
  \E g \in Tasks :
    LET tk == task[g] IN
    /\ tk.path = "event"
    /\ tk.pc = "returned"
    /\ KnownSport
    /\ \E k \in 2..(Len(tk.ts) - 1) : tk.got[k] = "raise"
    /\ Len(tk.hist) = Len(tk.ts) - 1

Running(g) == task[g].pc \in {"created", "sleeping", "network"}

\* C5: all running game processors belong to one batch, and at most batch_size
\* of them are running.
C5_BatchBarrier ==
  SeasonCall =>
    /\ \A g, h \in Tasks : Running(g) /\ Running(h) => task[g].batch = task[h].batch
    /\ Cardinality({g \in Tasks : Running(g)}) <= batch_size

\* C6: the output of fetch_season_odds is ordered by the position of the game
\* in the input list, and by ascending timestamp within a game, whatever the
\* order in which the game processors of a batch end.
C6_OutputInGameOrder ==
  \A j, k \in 1..Len(all_odds_data) :
    j < k =>
      \/ all_odds_data[j].game_id < all_odds_data[k].game_id
      \/ /\ all_odds_data[j].game_id = all_odds_data[k].game_id
         /\ all_odds_data[j].timestamp < all_odds_data[k].timestamp

RecordsOf(g) == SelectSeq(all_odds_data, LAMBDA r : r.game_id = g)

C6_Witness ==
  /\ orch = "returned"
  /\ Len(games) = 2
  /\ batch_size = 2
  /\ overtook
  /\ RecordsOf(1) # <<>>
  /\ RecordsOf(2) # <<>>

BatchFailed(b) == \E g \in Tasks : task[g].pc = "raised" /\ task[g].batch = b

\* C7: when an exception escapes a game processor of a batch, the failure is
\* reported, every later batch is still processed, and the records gathered
\* from the batches without such a failure are in the returned output.
C7_BatchFailureIsolated ==
  (SeasonCall /\ orch = "returned") =>
    /\ \A g \in Tasks : task[g].pc # "none"
    /\ batch_errors = Cardinality({task[g].batch : g \in {h \in Tasks : task[h].pc = "raised"}})
    /\ \A g \in Tasks : ~BatchFailed(task[g].batch) => RecordsOf(g) = task[g].hist

C7_Witness ==
  /\ orch = "returned"
  /\ Len(games) = 3
  /\ batch_size = 1
  /\ task[2].pc = "raised"
  /\ batch_errors = 1
  /\ RecordsOf(1) # <<>>
  /\ RecordsOf(3) # <<>>

\* C8: a response that carries an error_code field leaves no snapshot for its
\* timestamp in the history of the game processor.
C8_ProviderErrorOmitted ==
  \A g \in Tasks :
    task[g].path = "event" =>
      \A k \in 1..Len(task[g].got) :
        task[g].got[k] = "error_code" =>
          \A j \in 1..Len(task[g].hist) : task[g].hist[j].timestamp # task[g].ts[k]

\* C9: a run with a sport code outside the sport-key table takes no limiter
\* slot, issues no request and does not return a normal result.
C9_UnknownSportAborts ==
  (SeasonCall /\ ~KnownSport) =>
    /\ request_timestamps = <<>>
    /\ \A g \in Tasks : task[g].sent = 0
    /\ orch # "returned"

\* C10: for a recognised sport code fetch_season_odds always completes by
\* returning its list, whatever fetches, game processors or batches fail.
C10_AlwaysReturns ==
  (SeasonCall /\ KnownSport) => <>(orch = "returned")

C10_Witness ==
  /\ SeasonCall
  /\ KnownSport
  /\ orch = "returned"
  /\ batch_errors > 0
  /\ \E g \in Tasks : task[g].errors > 0

\* the same game without the overtime indicator
WithoutOvertime(game) == [game EXCEPT !.scores = {}]

\* C11: for every sport code, process_game_odds gives a game whose record
\* indicates overtime the timestamps of a duration 30 minutes longer than that
\* of the same game without the indicator.
C11_OvertimeExtendsDuration ==
  \A g \in Tasks :
    (/\ task[g].path = "event"
     /\ task[g].ts # <<>>
     /\ "overtime" \in games[g].scores)
    => task[g].ts =
         generate_game_timestamps(
           games[g].commence_time,
           GameDuration(sport, WithoutOvertime(games[g])) + OvertimeExtra,
           DefaultInterval)

\* the gridiron-football codes of the sport-key table
GridironCodes == {"nfl", "cfb"}

\* C12: a game without overtime gets the timestamps of 240 minutes when the
\* sport code is nfl or cfb and of 180 minutes for the other codes of the
\* sport-key table.
C12_NominalDurationBySport ==
  KnownSport =>
    \A g \in Tasks :
      (task[g].ts # <<>> /\ "overtime" \notin games[g].scores)
      => task[g].ts =
           generate_game_timestamps(
             games[g].commence_time,
             IF sport \in GridironCodes THEN FootballDuration ELSE DefaultDuration,
             DefaultInterval)

\* the instant an ISO 8601 string denotes, in minutes of UTC
Instant(s) == s.wall - OffsetMinutes(ReplaceZ(s).suffix)

\* the sequence T, T+I, ..., T+kI with k = floor(D / I)
StepsFrom(T, D, I) == [k \in 1..((D \div I) + 1) |-> T + (k - 1) * I]

\* C13: generate_game_timestamps returns, for a start instant T, a duration
\* D >= 0 and an interval I > 0, exactly the instants T, T+I, ..., T+kI with
\* k = floor(D / I).
C13_GeneratedSequence ==
  gen.pc = "returned" =>
    [k \in 1..Len(gen.timestamps) |-> Instant(gen.timestamps[k])]
      = StepsFrom(Instant(gen.game_start), gen.game_duration, gen.interval)

\* the same for the starts written in UTC
GeneratedFromUtc ==
  (gen.pc = "returned" /\ OffsetMinutes(ReplaceZ(gen.game_start).suffix) = 0) =>
    [k \in 1..Len(gen.timestamps) |-> Instant(gen.timestamps[k])]
      = StepsFrom(Instant(gen.game_start), gen.game_duration, gen.interval)

\* the games of the batch that began at loop index b
BatchAt(b) == {g \in Tasks : task[g].batch = b}

\* C14: fetch_season_odds cuts the n games into ceil(n / batch_size) batches
\* of consecutive games: every batch but the last has batch_size games, the
\* last has between 1 and batch_size, and every game is in exactly one batch.
C14_BatchPartition ==
  (SeasonCall /\ orch = "returned") =>
    LET n == Len(games)
        starts == {task[g].batch : g \in Tasks} IN
    /\ \A g \in Tasks : task[g].pc # "none"
    /\ Cardinality(starts) = (n + batch_size - 1) \div batch_size
    /\ \A b \in starts :
         /\ BatchAt(b) = (b + 1)..Min(b + batch_size, n)
         /\ Cardinality(BatchAt(b)) \in 1..batch_size
         /\ (\E c \in starts : c > b) => Cardinality(BatchAt(b)) = batch_size

C14_Witness ==
  /\ SeasonCall
  /\ orch = "returned"
  /\ Len(games) = 3
  /\ batch_size = 2
  /\ BatchAt(0) = {1, 2}
  /\ BatchAt(2) = {3}

\* C15: the history of the rate limiter never holds more than 30 entries.
C15_HistoryCapacity == Len(request_timestamps) <= RateCapacity

\* C16: every entry of the history is the clock value at which _rate_limit
\* released its caller.
C16_RecordedAtRelease ==
  Len(released) <= DequeMaxLen =>
    \A k \in 1..Len(request_timestamps) : request_timestamps[k] = released[k]

\* the positions of the timestamps answered with an entry of the game
Matched(tk) ==
  SelectSeq([k \in 1..Len(tk.got) |-> k], LAMBDA k : tk.got[k] = "ok")

\* C17: when fetch_odds_by_date fails for a timestamp (a transport failure or
\* the exception raised for an error_code), fetch_game_odds_history still
\* fetches the other timestamps and returns the records of those that did not
\* fail.
C17_DatePathFailureIsolated ==
  \A g \in Tasks :
    LET tk == task[g] IN
    (tk.path = "date" /\ KnownSport /\ tk.got # <<>> /\ Ended(tk))
    => /\ tk.pc = "returned"
       /\ Len(tk.got) = Len(tk.ts)
       /\ [j \in 1..Len(tk.hist) |-> tk.hist[j].timestamp]
            = [j \in 1..Len(Matched(tk)) |-> tk.ts[Matched(tk)[j]]]

\* requests of a game processor that were sent and are not yet answered
InFlight(tk) ==
  tk.sent - Cardinality({k \in 1..Len(tk.got) : tk.got[k] # "KeyError"})

\* C18: process_game_odds fetches the timestamps of a game in generator order
\* and one at a time: the fetch of a timestamp, its _rate_limit call
\* included, begins only when the fetches of all earlier timestamps have
\* returned or raised, and a game never has two requests in flight.
C18_OneFetchAtATime ==
  \A g \in Tasks :
    LET tk == task[g] IN
    tk.path = "event" =>
      /\ InFlight(tk) \in {0, 1}
      /\ InFlight(tk) = 1 <=> tk.pc = "network"
      /\ tk.pc = "sleeping" => tk.acquired = tk.idx - 1 /\ Len(tk.got) = tk.idx - 1
      /\ tk.pc = "network" => tk.acquired = tk.idx /\ Len(tk.got) = tk.idx - 1
      /\ tk.pc = "returned" => Len(tk.got) = Len(tk.ts)

C18_Witness ==
  /\ SeasonCall
  /\ \E g, h \in Tasks :
       /\ g # h
       /\ task[g].batch = task[h].batch
       /\ task[g].pc = "network"
       /\ task[g].idx > 2
       /\ task[h].pc \in {"network", "sleeping"}
       /\ task[h].idx > 1
       /\ task[h].idx < task[g].idx

\* game g has a caller suspended in the sleep of line 27
Suspended(g) == g \in Tasks /\ task[g].pc = "sleeping"

\* C19: every caller that _rate_limit suspends is released in the end (no
\* caller stays suspended for ever), while other tasks go on taking steps.
C19_LimiterReleases ==
  \A g \in 1..(MaxGames + 1) : []<>(~Suspended(g))

\* a caller released after its wait while another caller is still waiting
C19_Witness ==
  \E g, h \in Tasks :
    /\ g # h
    /\ task[g].pc = "network"
    /\ task[g].wake > task[g].now
    /\ clock >= task[g].wake
    /\ task[h].pc = "sleeping"

\* the games processed in the same batch as game g
Batchmates(g) == {h \in Tasks : task[h].pc # "none" /\ task[h].batch = task[g].batch}

\* C20: the output holds records of a game only if every game processor of
\* its batch returned; when a game processor of a batch raises, the output
\* holds no record of any game of that batch, and the records of the other
\* batches are all there when fetch_season_odds returns.
C20_BatchAllOrNothing ==
  SeasonCall =>
    \A g \in Tasks :
      /\ RecordsOf(g) # <<>> => \A h \in Batchmates(g) : task[h].pc = "returned"
      /\ BatchFailed(task[g].batch) => RecordsOf(g) = <<>>
      /\ (orch = "returned" /\ ~BatchFailed(task[g].batch))
           => RecordsOf(g) = task[g].hist

C20_Witness ==
  /\ SeasonCall
  /\ orch = "returned"
  /\ Len(games) = 3
  /\ batch_size = 2
  /\ task[1].pc = "raised"
  /\ task[2].pc = "returned"
  /\ Len(task[2].hist) = Len(task[2].ts)
  /\ RecordsOf(2) = <<>>
  /\ RecordsOf(3) = task[3].hist
  /\ RecordsOf(3) # <<>>
====
